---- MODULE Spec2Model ----
(***************************************************************************)
(* Model of src/sharepoint.py: the aggregation-and-template-population     *)
(* pipeline of class SharePoint (generate_monthly_stats and the methods it *)
(* calls).  Strings that the code takes apart (file names, notes, sheet    *)
(* names) are sequences of tokens; Join turns a token sequence back into   *)
(* the string the code compares or uses as a dictionary key.               *)
(***************************************************************************)
EXTENDS Integers, Sequences, FiniteSets, TLC

VARIABLES
    files,            \* the environment folder: slot -> DataFrame on disk, or Absent
    templateExists,   \* Path("Stats_template.xlsx").exists()
    templateFormulas, \* which cells of the template hold formulas
    wb,               \* the output workbooks on disk, one per year
    pc,               \* position of generate_monthly_stats
    year,             \* loop variable of "for year in sorted(years)"
    monthIdx,         \* index into year_months of the month loop
    outcome,          \* how the last run ended
    runs,             \* number of runs started
    edits,            \* number of changes the environment made to the folder
    lastCall,         \* arguments and result of the last _populate_monthly_worksheet call
    log,              \* this run's populate calls: sheet name -> aggregate passed
    note,             \* input of _normalize_payment_note
    normalized,       \* its last result
    ncalls            \* number of calls made on note

vars == <<files, templateExists, templateFormulas, wb, pc, year, monthIdx, outcome,
          runs, edits, lastCall, log, note, normalized, ncalls>>

pipelineVars == <<files, templateExists, templateFormulas, wb, pc, year, monthIdx,
                  outcome, runs, edits, lastCall, log>>

noteVars == <<note, normalized, ncalls>>

(***************************************************************************)
(* Bounds of the model.                                                    *)
(***************************************************************************)
MaxRuns == 2
MaxEdits == 2
MaxPayers == 3
MaxNoteLen == 3
MaxCalls == 2

(***************************************************************************)
(* Strings as token sequences.                                             *)
(***************************************************************************)
RECURSIVE Join(_)
Join(toks) ==
    IF toks = <<>> THEN "" ELSE Head(toks) \o Join(Tail(toks))

\* dict.get(key, default)
Get(d, k, default) ==
    IF k \in DOMAIN d THEN d[k] ELSE default

\* d[k] += n on a defaultdict(int)
AddTo(d, k, n) ==
    IF k \in DOMAIN d THEN [d EXCEPT ![k] = @ + n] ELSE d @@ (k :> n)

EmptyDict == [k \in {} |-> 0]

(***************************************************************************)
(* self.payer_row_mapping                                                  *)
(***************************************************************************)
payer_row_table ==
    [p \in {"Aetna", "Amerigroup", "Centene", "CHPWA", "Cigna", "DSHS", "HNB Echo",
            "Humana", "Kaiser", "Medicare", "Optum", "Premera", "Providence",
            "Regence", "Small Payers", "Tricare", "UHC", "WA ST L&I", "Zelis"} |->
        CASE p = "Aetna" -> 5
          [] p = "Amerigroup" -> 6
          [] p = "Centene" -> 7
          [] p = "CHPWA" -> 8
          [] p = "Cigna" -> 9
          [] p = "DSHS" -> 10
          [] p = "HNB Echo" -> 11
          [] p = "Humana" -> 12
          [] p = "Kaiser" -> 13
          [] p = "Medicare" -> 14
          [] p = "Optum" -> 15
          [] p = "Premera" -> 16
          [] p = "Providence" -> 17
          [] p = "Regence" -> 18
          [] p = "Small Payers" -> 19
          [] p = "Tricare" -> 20
          [] p = "UHC" -> 21
          [] p = "WA ST L&I" -> 22
          [] p = "Zelis" -> 23]

FirstPayerRow ==
    CHOOSE r \in {payer_row_table[p] : p \in DOMAIN payer_row_table} :
        \A q \in DOMAIN payer_row_table : r <= payer_row_table[q]

\* the model keeps the first MaxPayers rows of the table
payer_row_mapping ==
    [p \in {q \in DOMAIN payer_row_table :
                payer_row_table[q] < FirstPayerRow + MaxPayers} |-> payer_row_table[p]]

PayerRows == {payer_row_mapping[p] : p \in DOMAIN payer_row_mapping}

(***************************************************************************)
(* _normalize_payment_note                                                 *)
(***************************************************************************)
\* A raw cell of the NOTE column: NaN (missing) or text.
NaN == [isna |-> TRUE, text |-> <<>>]
Text(toks) == [isna |-> FALSE, text |-> toks]

\* The result: None or a string.
None == [none |-> TRUE, s |-> ""]
Some(s) == [none |-> FALSE, s |-> s]

IsSpace(tok) == tok = " "

RECURSIVE lstrip(_)
lstrip(toks) ==
    IF toks # <<>> /\ IsSpace(Head(toks)) THEN lstrip(Tail(toks)) ELSE toks

RECURSIVE rstrip(_)
rstrip(toks) ==
    IF toks # <<>> /\ IsSpace(toks[Len(toks)])
    THEN rstrip(SubSeq(toks, 1, Len(toks) - 1))
    ELSE toks

\* str(note).strip()
strip(toks) == Join(rstrip(lstrip(toks)))

normalize_payment_note(raw) ==
    IF raw.isna THEN None
    ELSE LET n == strip(raw.text) IN
         IF n \in {"Proliance Backup Timeout", "Batch Missing in NextGen"} THEN None
         ELSE IF n \in {"Balanced-Batch Closed", "Balanced-Batch Not Closed", "Balanced"}
              THEN Some("Balanced")
         ELSE IF n \in {"Not Balanced-PLAs", "Not Balanced-Remit Exceptions",
                        "Not Balanced-Expected"}
              THEN Some("Not Balanced-Expected")
         ELSE IF n \in {"Reconciled-Post Option Grayed Out", "Not Balanced-Review",
                        "Not Balanced-TA Review"}
              THEN Some("Not Balanced-Review")
         ELSE IF n = "Amkai" THEN Some("Amkai")
         ELSE Some(n)

(***************************************************************************)
(* The environment folder.  A file name is a token sequence; the folder    *)
(* holds a fixed set of names, each absent or holding a DataFrame.         *)
(***************************************************************************)
Delim == "_PMT MASTER_"

FileNames ==
    << <<"2024", "-", "01", "-05", Delim, "Aetna", ".xlsx">>,
       <<"2025", "-", "01", "-10", Delim, "Aetna", ".xlsx">>,
       <<"2025", "-", "02", "-01", Delim, "Aetna", ".xlsx">>,
       <<"2025", "-", "02", "-02", Delim, "Aetna", ".xlsx">>,
       <<"2025", "-", "02", "-03", Delim, "Molina", ".xlsx">>,
       <<"2025", "-", "02", "-04", Delim, Delim, "Aetna", ".xlsx">>,
       <<"2025", "-", "02", "-05", Delim, ".xlsx">> >>

Slots == DOMAIN FileNames

Absent == [kind |-> "absent", rows |-> <<>>]
DataFrame(rows) == [kind |-> "ok", rows |-> rows]
\* pd.read_excel raises
Unreadable == [kind |-> "unreadable", rows |-> <<>>]

DF_A ==
    DataFrame(<< Text(<<"Balanced-Batch Closed">>),
                 Text(<<" ", "Not Balanced-TA Review", " ">>),
                 Text(<<"Amkai">>),
                 NaN >>)
DF_B ==
    DataFrame(<< Text(<<"Amkai">>), Text(<<"Proliance Backup Timeout">>) >>)
DF_C ==
    DataFrame(<< Text(<<"Not Balanced-PLAs">>),
                 Text(<<"Something Else">>),
                 Text(<<"Balanced">>),
                 Text(<<"Balanced", " ">>) >>)

\* a sheet that has rows and no column named NOTE: df['NOTE'] raises KeyError
NoNoteColumn == [kind |-> "no_note", rows |-> << Text(<<"Balanced">>) >>]
\* a sheet without rows: df.empty
EmptyFrame == DataFrame(<<>>)

FileContents == {DF_A, DF_B, Unreadable}

\* the folder before the first run: one file in each of two months of a year
InitialFolder == [i \in Slots |-> IF i \in {2, 3} THEN DF_C ELSE Absent]

\* the contents of the files of the group 2025-02 in the folders of SpecFiles
GroupContents == {DF_A, DF_C, Unreadable, NoNoteColumn, EmptyFrame}

\* folders that hold every kind of file the loops skip: unreadable, without
\* the NOTE column, without rows, and with a name that yields no payer name
FolderChoices ==
    { <<c1, c2, c3, c4, c5, c6, c7>> :
         c1 \in {Absent, DF_B}, c2 \in {DF_C, Unreadable},
         c3 \in GroupContents, c4 \in GroupContents, c5 \in GroupContents,
         c6 \in {Absent, DF_A}, c7 \in {Absent, DF_A} }

(***************************************************************************)
(* _extract_payer_name                                                     *)
(***************************************************************************)
RECURSIVE SplitAcc(_, _, _, _)
SplitAcc(toks, d, cur, done) ==
    IF toks = <<>> THEN Append(done, cur)
    ELSE IF Head(toks) = d
         THEN SplitAcc(Tail(toks), d, <<>>, Append(done, cur))
         ELSE SplitAcc(Tail(toks), d, Append(cur, Head(toks)), done)

\* str.split(d)
split(toks, d) == SplitAcc(toks, d, <<>>, <<>>)

\* str.replace(old, new) on whole tokens
replace(toks, old, new) ==
    [i \in DOMAIN toks |-> IF toks[i] = old THEN new ELSE toks[i]]

extract_payer_name(filename) ==
    LET parts == split(filename, Delim) IN
    IF Len(parts) = 2 THEN Some(Join(replace(parts[2], ".xlsx", ""))) ELSE None

\* "if not payer_name: continue" is not taken for these names
NamedSlots ==
    {i \in Slots : ~extract_payer_name(FileNames[i]).none
                      /\ extract_payer_name(FileNames[i]).s # ""}

(***************************************************************************)
(* generate_monthly_stats: grouping of the files by year-month             *)
(***************************************************************************)
YearMonthLen == 7

YearPrefixes == <<"2024-", "2025-", "2026-">>

\* filename[:n], on whole tokens
RECURSIVE Prefix(_, _)
Prefix(toks, n) ==
    IF toks = <<>> \/ n <= 0 \/ Len(Head(toks)) > n THEN <<>>
    ELSE <<Head(toks)>> \o Prefix(Tail(toks), n - Len(Head(toks)))

RECURSIVE PresentFrom(_, _)
PresentFrom(fs, i) ==
    IF i \notin DOMAIN fs THEN <<>>
    ELSE (IF fs[i].kind = "absent" THEN <<>> ELSE <<i>>) \o PresentFrom(fs, i + 1)

\* list(files_dir.glob("*_PMT MASTER_*.xlsx")): the slots present, in folder order
excel_files(fs) == PresentFrom(fs, 1)

startswithYear(filename) ==
    \E i \in DOMAIN YearPrefixes :
        Len(filename) >= 2 /\ Join(SubSeq(filename, 1, 2)) = YearPrefixes[i]

\* monthly_data as the keys in insertion order and the list of each key
RECURSIVE GroupFiles(_, _)
GroupFiles(slots, acc) ==
    IF slots = <<>> THEN acc
    ELSE LET i == Head(slots)
             ym == Join(Prefix(FileNames[i], YearMonthLen))
             next ==
                 IF ~startswithYear(FileNames[i]) THEN acc
                 ELSE IF ym \in DOMAIN acc.groups
                      THEN [acc EXCEPT !.groups[ym] = Append(@, i)]
                      ELSE [keys |-> Append(acc.keys, ym),
                            yearOf |-> acc.yearOf @@ (ym :> FileNames[i][1]),
                            monthOf |-> acc.monthOf @@ (ym :> FileNames[i][3]),
                            groups |-> acc.groups @@ (ym :> <<i>>)]
         IN GroupFiles(Tail(slots), next)

monthly_data(fs) ==
    GroupFiles(excel_files(fs),
               [keys |-> <<>>, yearOf |-> EmptyDict, monthOf |-> EmptyDict,
                groups |-> EmptyDict])

\* year_month.split('-')[0]
YearOfKey(md, ym) == md.yearOf[ym]

YearIndex(y) == CHOOSE i \in DOMAIN YearPrefixes : YearPrefixes[i] = y \o "-"

Years(md) == {YearOfKey(md, md.keys[k]) : k \in DOMAIN md.keys}

\* sorted(years)
RECURSIVE SortedYears(_)
SortedYears(ys) ==
    IF ys = {} THEN <<>>
    ELSE LET y == CHOOSE a \in ys : \A b \in ys : YearIndex(a) <= YearIndex(b)
         IN <<y>> \o SortedYears(ys \ {y})

\* [ym for ym in monthly_data.keys() if ym.startswith(year)]
RECURSIVE FilterKeys(_, _, _)
FilterKeys(md, keys, y) ==
    IF keys = <<>> THEN <<>>
    ELSE (IF YearOfKey(md, Head(keys)) = y THEN <<Head(keys)>> ELSE <<>>)
         \o FilterKeys(md, Tail(keys), y)

year_months(md, y) == FilterKeys(md, md.keys, y)

\* self.get_month_sheet_name(year, month_number)
get_month_sheet_name(y, month_number) == y \o "-" \o month_number

\* self.get_ytd_sheet_name(year)
get_ytd_sheet_name(y) == y \o "-YTD"

(***************************************************************************)
(* The aggregation of one group of files (lines 367-401 and 406-433)       *)
(***************************************************************************)
EmptyCounts == [payer_stats |-> EmptyDict, amkai_counts |-> EmptyDict]

\* Series.value_counts() of the normalized values that are kept
value_counts(norm, keep) ==
    [c \in {norm[i].s : i \in keep} |-> Cardinality({i \in keep : norm[i].s = c})]

\* stats[payer_name][category] += count
Inc(stats, payer, category, count) ==
    IF payer \in DOMAIN stats
    THEN [stats EXCEPT ![payer] = AddTo(@, category, count)]
    ELSE stats @@ (payer :> (category :> count))

\* for category, count in normalization_counts.items(): ...
RECURSIVE AddCounts(_, _, _)
AddCounts(stats, payer, counts) ==
    IF DOMAIN counts = {} THEN stats
    ELSE LET c == CHOOSE k \in DOMAIN counts : TRUE
             rest == [k \in DOMAIN counts \ {c} |-> counts[k]]
         IN AddCounts(Inc(stats, payer, c, counts[c]), payer, rest)

\* df_filtered[df_filtered['Normalized'] != 'Amkai']
NotAmkai(norm, kept) == {i \in kept : norm[i].s # "Amkai"}

\* the body of "for file_path in files"
AddFile(acc, filename, df) ==
    LET payer_name == extract_payer_name(filename) IN
    IF payer_name.none \/ payer_name.s = "" THEN acc
    ELSE IF df.kind = "unreadable" THEN acc
    ELSE IF df.rows = <<>> THEN acc
    ELSE IF df.kind = "no_note" THEN acc
    ELSE LET norm == [i \in DOMAIN df.rows |-> normalize_payment_note(df.rows[i])]
             kept == {i \in DOMAIN norm : ~norm[i].none}
             normalization_counts == value_counts(norm, NotAmkai(norm, kept))
             amkai_count == Cardinality({i \in kept : norm[i].s = "Amkai"})
         IN [payer_stats |-> AddCounts(acc.payer_stats, payer_name.s,
                                       normalization_counts),
             amkai_counts |-> AddTo(acc.amkai_counts, payer_name.s, amkai_count)]

\* pd.read_excel or df['NOTE'] raises inside the try
Raises(df) == df.kind = "unreadable" \/ (df.kind = "no_note" /\ df.rows # <<>>)

\* mutant: the except clause leaves the loop over the files of the group
RECURSIVE AggregateFilesBreak(_, _, _)
AggregateFilesBreak(fs, slots, acc) ==
    IF slots = <<>> \/ Raises(fs[Head(slots)]) THEN acc
    ELSE AggregateFilesBreak(fs, Tail(slots),
                             AddFile(acc, FileNames[Head(slots)], fs[Head(slots)]))

\* "for file_path in files"
RECURSIVE AggregateFiles(_, _, _)
AggregateFiles(fs, slots, acc) ==
    IF slots = <<>> THEN acc
    ELSE AggregateFiles(fs, Tail(slots),
                        AddFile(acc, FileNames[Head(slots)], fs[Head(slots)]))

\* month_payer_stats, month_amkai_counts of one year_month
MonthAggregate(fs, md, ym) == AggregateFiles(fs, md.groups[ym], EmptyCounts)

\* mutant: the YTD dictionaries are created inside the loop over the months
RECURSIVE YtdLoopRestart(_, _, _, _)
YtdLoopRestart(fs, md, yms, acc) ==
    IF yms = <<>> THEN acc
    ELSE YtdLoopRestart(fs, md, Tail(yms),
                        AggregateFiles(fs, md.groups[Head(yms)], EmptyCounts))

\* ytd_payer_stats, ytd_amkai_counts: "for year_month in year_months: for file_path ..."
RECURSIVE YtdLoop(_, _, _, _)
YtdLoop(fs, md, yms, acc) ==
    IF yms = <<>> THEN acc
    ELSE YtdLoop(fs, md, Tail(yms), AggregateFiles(fs, md.groups[Head(yms)], acc))

YtdAggregate(fs, md, y) == YtdLoop(fs, md, year_months(md, y), EmptyCounts)

(***************************************************************************)
(* Worksheets.  A cell is blank, an integer literal or a formula; openpyxl *)
(* gives data_type 'f' to a formula cell and 'n' to the other two.         *)
(***************************************************************************)
Cols == {"D", "F", "H", "K"}

MinRow == CHOOSE r \in PayerRows : \A q \in PayerRows : r <= q
MaxRow == CHOOSE r \in PayerRows : \A q \in PayerRows : r >= q

\* the payer rows, the header row above them and the totals row below them
SheetRows == (MinRow - 1)..(MaxRow + 1)

CellIds == SheetRows \X Cols

Blank == [kind |-> "blank", value |-> 0]
Literal(n) == [kind |-> "int", value |-> n]
Formula(id) == [kind |-> "formula", value |-> id]

data_type(cell) == IF cell.kind = "formula" THEN "f" ELSE "n"

(***************************************************************************)
(* Stats_template.xlsx: sheet names and C3 carry the placeholder YYYY.     *)
(***************************************************************************)
Placeholder == "YYYY"

TemplateSheets ==
    << [name |-> <<Placeholder, "-", "01">>, c3 |-> <<"Stats ", Placeholder>>],
       [name |-> <<Placeholder, "-", "02">>, c3 |-> <<"Stats ", Placeholder>>],
       [name |-> <<Placeholder, "-YTD">>, c3 |-> <<"Stats ", Placeholder, " YTD">>],
       [name |-> <<"Notes">>, c3 |-> <<>>] >>

\* the formula cells of a template: <<sheet index, row, column>>
MixedFormulas ==
    { <<1, MinRow, "D">>, <<1, MaxRow + 1, "D">>,
      <<2, MinRow, "K">>, <<2, MinRow + 1, "F">>,
      <<3, MinRow, "H">>, <<3, MaxRow, "D">>, <<3, MaxRow + 1, "K">> }

TemplateChoices == { {}, MixedFormulas }

TemplateCells(forms, k) ==
    [rc \in CellIds |-> IF <<k, rc[1], rc[2]>> \in forms THEN Formula(rc[1]) ELSE Blank]

NoWorkbook == [exists |-> FALSE, sheets |-> EmptyDict]

\* the workbook file that holds the given sheets (name and C3 as token sequences)
WorkbookOf(forms, sheetSeq) ==
    [exists |-> TRUE,
     sheets |->
        [n \in {Join(sheetSeq[k].name) : k \in DOMAIN sheetSeq} |->
            LET k == CHOOSE j \in DOMAIN sheetSeq : Join(sheetSeq[j].name) = n
            IN [c3 |-> Join(sheetSeq[k].c3), cells |-> TemplateCells(forms, k)]]]

\* shutil.copy2(template_path, excel_file_path)
CopyOfTemplate(forms) == WorkbookOf(forms, TemplateSheets)

\* "for original_sheet_name in original_sheet_names": the title and C3 of one sheet
SubstituteSheet(sh, y) ==
    [name |-> replace(sh.name, Placeholder, y),
     c3 |-> IF \E i \in DOMAIN sh.c3 : sh.c3[i] = Placeholder
            THEN replace(sh.c3, Placeholder, y)
            ELSE sh.c3]

\* the copy after the loop over its sheets and wb.save
Substituted(forms, y) ==
    WorkbookOf(forms, [k \in DOMAIN TemplateSheets |-> SubstituteSheet(TemplateSheets[k], y)])

\* mutant: the existence check is dropped and every run clones the template
NeedsCloneAlways(w) == TRUE

\* "if not excel_file_path.exists()"
NeedsClone(w) == ~w.exists

(***************************************************************************)
(* _populate_monthly_worksheet                                             *)
(***************************************************************************)
\* mutant: a payer without a row is written to the row below the table
RowForDefault(payer_name) ==
    IF payer_name \in DOMAIN payer_row_mapping
    THEN {payer_row_mapping[payer_name]}
    ELSE {MaxRow + 1}

\* the rows the data loop writes for a payer: "if payer_name in self.payer_row_mapping"
RowFor(payer_name) ==
    IF payer_name \in DOMAIN payer_row_mapping
    THEN {payer_row_mapping[payer_name]}
    ELSE {}

\* mutant: the write without the data_type check
SetAlways(cell, v) == Literal(v)

\* mutant: the count is added to the value the cell holds
SetAccumulate(cell, v) ==
    IF data_type(cell) # "f" THEN Literal(cell.value + v) ELSE cell

\* "if ws[...].data_type != 'f': ws[...].value = v"
SetIfNotFormula(cell, v) ==
    IF data_type(cell) # "f" THEN Literal(v) ELSE cell

\* the count the data loop writes in a column
ColumnCount(stats, amkai_counts, payer_name, col) ==
    CASE col = "D" -> Get(stats, "Balanced", 0)
      [] col = "F" -> Get(stats, "Not Balanced-Expected", 0)
      [] col = "H" -> Get(stats, "Not Balanced-Review", 0)
      [] col = "K" -> Get(amkai_counts, payer_name, 0)

\* "for payer_name, stats in payer_stats.items()"
DataLoop(cells, payer_stats, amkai_counts) ==
    [rc \in DOMAIN cells |->
        IF \E p \in DOMAIN payer_stats : rc[1] \in RowFor(p)
        THEN LET p == CHOOSE q \in DOMAIN payer_stats : rc[1] \in RowFor(q)
             IN SetIfNotFormula(cells[rc],
                                ColumnCount(payer_stats[p], amkai_counts, p, rc[2]))
        ELSE cells[rc]]

\* mutant: the zero-fill loop writes 0 in column K as in the other columns
ZeroLoopAllZero(cells, payer_stats, amkai_counts) ==
    [rc \in DOMAIN cells |->
        IF \E p \in DOMAIN payer_row_mapping :
               payer_row_mapping[p] = rc[1] /\ p \notin DOMAIN payer_stats
        THEN IF data_type(cells[rc]) # "f" THEN Literal(0) ELSE cells[rc]
        ELSE cells[rc]]

\* "for payer_name, row in self.payer_row_mapping.items(): if payer_name not in payer_stats"
ZeroLoop(cells, payer_stats, amkai_counts) ==
    [rc \in DOMAIN cells |->
        IF \E p \in DOMAIN payer_row_mapping :
               payer_row_mapping[p] = rc[1] /\ p \notin DOMAIN payer_stats
        THEN LET p == CHOOSE q \in DOMAIN payer_row_mapping :
                          payer_row_mapping[q] = rc[1]
             IN SetIfNotFormula(cells[rc],
                                IF rc[2] = "K" THEN Get(amkai_counts, p, 0) ELSE 0)
        ELSE cells[rc]]

PopulateCells(cells, payer_stats, amkai_counts) ==
    ZeroLoop(DataLoop(cells, payer_stats, amkai_counts), payer_stats, amkai_counts)

\* the call when load and save succeed: the workbook saved, and what happened
populate_monthly_worksheet(w, sheet_name, agg) ==
    IF sheet_name \notin DOMAIN w.sheets
    THEN [wb |-> w, result |-> "missing"]
    ELSE [wb |-> [w EXCEPT !.sheets[sheet_name].cells =
                      PopulateCells(@, agg.payer_stats, agg.amkai_counts)],
          result |-> "saved"]

(***************************************************************************)
(* State machine.                                                          *)
(***************************************************************************)
OutputYears == {FileNames[i][1] : i \in Slots}

NoCall ==
    [sheet |-> "", year |-> "", agg |-> EmptyCounts, result |-> "none"]

InitPipeline ==
    /\ files = InitialFolder
    /\ templateExists = TRUE
    /\ wb = [y \in OutputYears |-> NoWorkbook]
    /\ pc = "idle"
    /\ year = ""
    /\ monthIdx = 0
    /\ outcome = "none"
    /\ runs = 0
    /\ edits = 0
    /\ lastCall = NoCall
    /\ log = EmptyDict

Init ==
    /\ InitPipeline
    /\ templateFormulas \in TemplateChoices
    /\ note = NaN
    /\ normalized = None
    /\ ncalls = 0

Idle == pc \in {"idle", "done"}

\* The environment writes, replaces or removes one source file between runs
\* (the files whose name yields no payer name are in the folders of SpecFiles).
EditFile ==
    /\ Idle
    /\ edits < MaxEdits
    /\ runs < MaxRuns
    /\ \E i \in NamedSlots, c \in FileContents \cup {Absent} :
          /\ files[i] # c
          /\ files' = [files EXCEPT ![i] = c]
    /\ edits' = edits + 1
    /\ pc' = "idle"
    /\ UNCHANGED <<templateExists, templateFormulas, wb, year, monthIdx, outcome, runs,
                   lastCall, log, noteVars>>

\* The environment removes or restores Stats_template.xlsx between runs.
SetTemplate ==
    /\ Idle
    /\ edits < MaxEdits
    /\ runs < MaxRuns
    /\ templateExists' = ~templateExists
    /\ edits' = edits + 1
    /\ pc' = "idle"
    /\ UNCHANGED <<files, templateFormulas, wb, year, monthIdx, outcome, runs,
                   lastCall, log, noteVars>>

\* generate_monthly_stats up to the first year of _generate_reports_from_template
StartRun ==
    /\ Idle
    /\ runs < MaxRuns
    /\ runs' = runs + 1
    /\ log' = EmptyDict
    /\ lastCall' = NoCall
    /\ monthIdx' = 0
    /\ LET md == monthly_data(files) IN
       IF excel_files(files) = <<>> \/ md.keys = <<>>
       THEN /\ pc' = "done"
            /\ outcome' = "no_files"
            /\ year' = ""
       ELSE /\ pc' = "provision"
            /\ outcome' = "running"
            /\ year' = SortedYears(Years(md))[1]
    /\ UNCHANGED <<files, templateExists, templateFormulas, wb, edits, noteVars>>

\* "Stats file already exists"
ProvisionExisting ==
    /\ pc = "provision"
    /\ ~NeedsClone(wb[year])
    /\ pc' = "month"
    /\ monthIdx' = 1
    /\ UNCHANGED <<files, templateExists, templateFormulas, wb, year, outcome, runs,
                   edits, lastCall, log, noteVars>>

\* "Error: Stats_template.xlsx not found in root directory": return
ProvisionNoTemplate ==
    /\ pc = "provision"
    /\ NeedsClone(wb[year])
    /\ ~templateExists
    /\ pc' = "done"
    /\ outcome' = "template_missing"
    /\ UNCHANGED <<files, templateExists, templateFormulas, wb, year, monthIdx, runs,
                   edits, lastCall, log, noteVars>>

\* copy2, load, rename and substitute, save
ProvisionClone ==
    /\ pc = "provision"
    /\ NeedsClone(wb[year])
    /\ templateExists
    /\ wb' = [wb EXCEPT ![year] = Substituted(templateFormulas, year)]
    /\ pc' = "month"
    /\ monthIdx' = 1
    /\ UNCHANGED <<files, templateExists, templateFormulas, year, outcome, runs, edits,
                   lastCall, log, noteVars>>

\* copy2 succeeds, then load_workbook or wb.save raises: the exception leaves
\* _generate_reports_from_template and the copy stays on disk
ProvisionFails ==
    /\ pc = "provision"
    /\ NeedsClone(wb[year])
    /\ templateExists
    /\ wb' = [wb EXCEPT ![year] = CopyOfTemplate(templateFormulas)]
    /\ pc' = "done"
    /\ outcome' = "provision_raised"
    /\ UNCHANGED <<files, templateExists, templateFormulas, year, monthIdx, runs, edits,
                   lastCall, log, noteVars>>

\* the position after the month loop's body
AfterMonth(md) ==
    IF monthIdx < Len(year_months(md, year))
    THEN pc' = "month" /\ monthIdx' = monthIdx + 1
    ELSE pc' = "ytd" /\ monthIdx' = 0

\* one iteration of "for year_month in year_months": aggregate, then populate
PopulateMonth ==
    /\ pc = "month"
    /\ LET md == monthly_data(files)
           ym == year_months(md, year)[monthIdx]
           sheet_name == get_month_sheet_name(year, md.monthOf[ym])
           agg == MonthAggregate(files, md, ym)
           r == populate_monthly_worksheet(wb[year], sheet_name, agg)
       IN /\ wb' = [wb EXCEPT ![year] = r.wb]
          /\ lastCall' = [sheet |-> sheet_name, year |-> year, agg |-> agg,
                          result |-> r.result]
          /\ log' = log @@ (sheet_name :> agg)
          /\ AfterMonth(md)
    /\ UNCHANGED <<files, templateExists, templateFormulas, year, outcome, runs, edits,
                   noteVars>>

\* the same iteration when load_workbook or wb.save raises: "raise" at line 512
\* leaves _generate_reports_from_template and generate_monthly_stats
PopulateMonthRaises ==
    /\ pc = "month"
    /\ LET md == monthly_data(files)
           ym == year_months(md, year)[monthIdx]
           sheet_name == get_month_sheet_name(year, md.monthOf[ym])
           agg == MonthAggregate(files, md, ym)
       IN /\ lastCall' = [sheet |-> sheet_name, year |-> year, agg |-> agg,
                          result |-> "raised"]
          /\ log' = log @@ (sheet_name :> agg)
    /\ pc' = "done"
    /\ outcome' = "populate_raised"
    /\ UNCHANGED <<files, templateExists, templateFormulas, wb, year, monthIdx, runs,
                   edits, noteVars>>

\* the position after the YTD populate: the next year of sorted(years), or the end
AfterYtd(md) ==
    LET ys == SortedYears(Years(md))
        k == CHOOSE j \in DOMAIN ys : ys[j] = year
    IN IF k < Len(ys)
       THEN pc' = "provision" /\ year' = ys[k + 1] /\ outcome' = outcome
       ELSE pc' = "done" /\ year' = year /\ outcome' = "ok"

\* the YTD pass of a year: aggregate all its files again, then populate
PopulateYtd ==
    /\ pc = "ytd"
    /\ LET md == monthly_data(files)
           sheet_name == get_ytd_sheet_name(year)
           agg == YtdAggregate(files, md, year)
           r == populate_monthly_worksheet(wb[year], sheet_name, agg)
       IN /\ wb' = [wb EXCEPT ![year] = r.wb]
          /\ lastCall' = [sheet |-> sheet_name, year |-> year, agg |-> agg,
                          result |-> r.result]
          /\ log' = log @@ (sheet_name :> agg)
          /\ AfterYtd(md)
    /\ UNCHANGED <<files, templateExists, templateFormulas, monthIdx, runs, edits,
                   noteVars>>

PopulateYtdRaises ==
    /\ pc = "ytd"
    /\ LET md == monthly_data(files)
           sheet_name == get_ytd_sheet_name(year)
           agg == YtdAggregate(files, md, year)
       IN /\ lastCall' = [sheet |-> sheet_name, year |-> year, agg |-> agg,
                          result |-> "raised"]
          /\ log' = log @@ (sheet_name :> agg)
    /\ pc' = "done"
    /\ outcome' = "populate_raised"
    /\ UNCHANGED <<files, templateExists, templateFormulas, wb, year, monthIdx, runs,
                   edits, noteVars>>

Next ==
    \/ EditFile
    \/ SetTemplate
    \/ StartRun
    \/ ProvisionExisting
    \/ ProvisionNoTemplate
    \/ ProvisionClone
    \/ ProvisionFails
    \/ PopulateMonth
    \/ PopulateMonthRaises
    \/ PopulateYtd
    \/ PopulateYtdRaises

Spec == Init /\ [][Next]_vars

(***************************************************************************)
(* Runs over a folder that holds files the aggregation loops skip.         *)
(***************************************************************************)
InitFiles ==
    /\ files \in FolderChoices
    /\ templateExists = TRUE
    /\ templateFormulas = MixedFormulas
    /\ wb = [y \in OutputYears |-> NoWorkbook]
    /\ pc = "idle"
    /\ year = ""
    /\ monthIdx = 0
    /\ outcome = "none"
    /\ runs = 0
    /\ edits = 0
    /\ lastCall = NoCall
    /\ log = EmptyDict
    /\ note = NaN
    /\ normalized = None
    /\ ncalls = 0

\* the steps of a run in which the workbook loads and saves
NextFiles ==
    \/ StartRun
    \/ ProvisionExisting
    \/ ProvisionClone
    \/ PopulateMonth
    \/ PopulateYtd

SpecFiles == InitFiles /\ [][NextFiles]_vars

(***************************************************************************)
(* The normalizer on its own: one raw note, normalized repeatedly.         *)
(***************************************************************************)
NoteTokens ==
    {" ", "Proliance Backup Timeout", "Batch Missing in NextGen",
     "Balanced-Batch Closed", "Balanced-Batch Not Closed", "Balanced",
     "Not Balanced-PLAs", "Not Balanced-Remit Exceptions", "Not Balanced-Expected",
     "Reconciled-Post Option Grayed Out", "Not Balanced-Review",
     "Not Balanced-TA Review", "Amkai", "Something Else", "balanced"}

RawNotes ==
    {NaN} \cup {Text(t) : t \in UNION {[1..n -> NoteTokens] : n \in 0..MaxNoteLen}}

InitNorm ==
    /\ InitPipeline
    /\ templateFormulas = {}
    /\ note \in RawNotes
    /\ normalized = None
    /\ ncalls = 0

Normalize ==
    /\ ncalls < MaxCalls
    /\ normalized' = normalize_payment_note(note)
    /\ ncalls' = ncalls + 1
    /\ UNCHANGED <<note, pipelineVars>>

NextNorm == Normalize

SpecNorm == InitNorm /\ [][NextNorm]_vars

(***************************************************************************)
(* Helpers of the properties.                                              *)
(***************************************************************************)
RECURSIVE SumOf(_)
SumOf(f) ==
    IF DOMAIN f = {} THEN 0
    ELSE LET k == CHOOSE j \in DOMAIN f : TRUE
         IN f[k] + SumOf([j \in DOMAIN f \ {k} |-> f[j]])

\* the count of a payer and category in a payer_stats map, 0 when absent
StatOf(payer_stats, p, c) ==
    IF p \in DOMAIN payer_stats /\ c \in DOMAIN payer_stats[p]
    THEN payer_stats[p][c] ELSE 0

AmkaiOf(amkai_counts, p) ==
    IF p \in DOMAIN amkai_counts THEN amkai_counts[p] ELSE 0

CategoryOfColumn(col) ==
    CASE col = "D" -> "Balanced"
      [] col = "F" -> "Not Balanced-Expected"
      [] col = "H" -> "Not Balanced-Review"

\* the payer's aggregated count for a column if it has one, otherwise 0
ExpectedCount(agg, p, col) ==
    IF col = "K" THEN AmkaiOf(agg.amkai_counts, p)
    ELSE StatOf(agg.payer_stats, p, CategoryOfColumn(col))

Keys(agg) == DOMAIN agg.payer_stats \cup DOMAIN agg.amkai_counts

\* the sheets of the months of year y that the loop over year_months populates
MonthSheets(md, y) ==
    {get_month_sheet_name(y, md.monthOf[ym]) :
        ym \in {k \in DOMAIN md.groups : md.yearOf[k] = y}}

PeriodSheets(md, y) == MonthSheets(md, y) \cup {get_ytd_sheet_name(y)}

CalledSheet == wb[lastCall.year].sheets[lastCall.sheet]

(***************************************************************************)
(* C1: a cell that holds a formula holds the same formula after every step *)
(* (every populate call, data loop and zero-fill loop, on every sheet).    *)
(***************************************************************************)
C1_FormulaPreserved ==
    [][\A y \in OutputYears : \A s \in DOMAIN wb[y].sheets : \A rc \in CellIds :
          wb[y].sheets[s].cells[rc].kind = "formula"
          => /\ s \in DOMAIN wb'[y].sheets
             /\ wb'[y].sheets[s].cells[rc] = wb[y].sheets[s].cells[rc]]_vars

\* a saved call whose sheet holds a formula in a cell the data loop would write
\* with a nonzero count, and a formula in a row of the zero-fill loop
C1_Witness ==
    /\ lastCall.result = "saved"
    /\ \E p \in DOMAIN lastCall.agg.payer_stats \cap DOMAIN payer_row_mapping :
       \E col \in Cols :
          /\ CalledSheet.cells[<<payer_row_mapping[p], col>>].kind = "formula"
          /\ ExpectedCount(lastCall.agg, p, col) > 0
    /\ \E p \in DOMAIN payer_row_mapping \ DOMAIN lastCall.agg.payer_stats :
       \E col \in Cols :
          CalledSheet.cells[<<payer_row_mapping[p], col>>].kind = "formula"

(***************************************************************************)
(* C2: after a saved populate, every non-formula cell of columns D, F, H,  *)
(* K of every mapped payer's row holds the payer's count, or 0.            *)
(***************************************************************************)
C2_ZeroFill ==
    lastCall.result = "saved"
    => \A p \in DOMAIN payer_row_mapping : \A col \in Cols :
          LET cell == CalledSheet.cells[<<payer_row_mapping[p], col>>]
          IN cell.kind # "formula"
             => cell = Literal(ExpectedCount(lastCall.agg, p, col))

\* a saved call with a mapped payer that has only an Amkai count, and one with none
C2_Witness ==
    /\ lastCall.result = "saved"
    /\ \E p \in DOMAIN payer_row_mapping :
          /\ p \notin DOMAIN lastCall.agg.payer_stats
          /\ AmkaiOf(lastCall.agg.amkai_counts, p) > 0
          /\ CalledSheet.cells[<<payer_row_mapping[p], "K">>] =
                Literal(AmkaiOf(lastCall.agg.amkai_counts, p))
    /\ \E p \in DOMAIN payer_row_mapping :
          /\ p \notin Keys(lastCall.agg)
          /\ CalledSheet.cells[<<payer_row_mapping[p], "D">>] = Literal(0)

(***************************************************************************)
(* C3: after a second or later run that went through all its years without *)
(* an error, no literal count cell of a month or YTD sheet holds a nonzero  *)
(* value that the current source files do not produce.                     *)
(***************************************************************************)
ProducedFor(fs, y, sheet_name) ==
    LET md == monthly_data(fs)
        yms == {k \in DOMAIN md.groups :
                   md.yearOf[k] = y /\ get_month_sheet_name(y, md.monthOf[k]) = sheet_name}
    IN IF sheet_name = get_ytd_sheet_name(y)
       THEN YtdAggregate(fs, md, y)
       ELSE IF yms = {} THEN EmptyCounts
       ELSE MonthAggregate(fs, md, CHOOSE k \in yms : TRUE)

C3_NoStaleCounts ==
    (pc = "done" /\ runs >= 2 /\ outcome = "ok")
    => \A y \in OutputYears : \A s \in DOMAIN wb[y].sheets :
       \A p \in DOMAIN payer_row_mapping : \A col \in Cols :
          LET cell == wb[y].sheets[s].cells[<<payer_row_mapping[p], col>>]
          IN (cell.kind = "int" /\ cell.value # 0)
             => cell.value = ExpectedCount(ProducedFor(files, y, s), p, col)

(***************************************************************************)
(* C4: populating again with the arguments of a saved call leaves the      *)
(* workbook exactly as that call saved it.                                 *)
(***************************************************************************)
C4_Idempotent ==
    lastCall.result = "saved"
    => populate_monthly_worksheet(wb[lastCall.year], lastCall.sheet, lastCall.agg).wb
          = wb[lastCall.year]

\* a saved call that wrote a nonzero count
C4_Witness ==
    /\ lastCall.result = "saved"
    /\ \E p \in DOMAIN payer_row_mapping : \E col \in Cols :
          /\ ExpectedCount(lastCall.agg, p, col) > 0
          /\ CalledSheet.cells[<<payer_row_mapping[p], col>>].kind = "int"

(***************************************************************************)
(* C5: a workbook that exists stays, keeps its sheet names and C3 cells,   *)
(* and is left untouched by the provisioning step; a workbook comes into   *)
(* existence only in the provisioning step of its year with the template   *)
(* present, and when that step goes on to the months the year is           *)
(* substituted in the sheet names.                                         *)
(***************************************************************************)
C5_ProvisionIdempotent ==
    [][\A y \in OutputYears :
          /\ wb[y].exists
             => /\ wb'[y].exists
                /\ DOMAIN wb'[y].sheets = DOMAIN wb[y].sheets
                /\ \A s \in DOMAIN wb[y].sheets : wb'[y].sheets[s].c3 = wb[y].sheets[s].c3
          /\ (pc = "provision" /\ wb[y].exists) => wb'[y] = wb[y]
          /\ (~wb[y].exists /\ wb'[y].exists)
             => /\ pc = "provision" /\ year = y /\ templateExists
                /\ pc' = "month"
                   => /\ get_ytd_sheet_name(y) \in DOMAIN wb'[y].sheets
                      /\ Join(<<Placeholder, "-YTD">>) \notin DOMAIN wb'[y].sheets]_vars

\* the provisioning step has just found a workbook that an earlier run populated
C5_Witness ==
    /\ pc = "month" /\ monthIdx = 1 /\ runs >= 2
    /\ wb[year].exists
    /\ wb[year] # Substituted(templateFormulas, year)
    /\ get_ytd_sheet_name(year) \in DOMAIN wb[year].sheets

(***************************************************************************)
(* C6: a run that stops at a year whose template is missing has still      *)
(* populated every other year of the run whose provisioned workbook exists.*)
(***************************************************************************)
C6_MissingTemplateOneYear ==
    (pc = "done" /\ outcome = "template_missing")
    => \A y \in Years(monthly_data(files)) :
          (wb[y].exists /\ get_ytd_sheet_name(y) \in DOMAIN wb[y].sheets)
          => PeriodSheets(monthly_data(files), y) \subseteq DOMAIN log

(***************************************************************************)
(* C7: a run in which a populate call raised has still passed the other    *)
(* months of that year, its YTD sheet and the later years with a workbook  *)
(* to populate.                                                            *)
(***************************************************************************)
C7_SiblingIsolation ==
    (pc = "done" /\ outcome = "populate_raised")
    => \A y \in Years(monthly_data(files)) :
          (wb[y].exists /\ YearIndex(y) >= YearIndex(lastCall.year))
          => PeriodSheets(monthly_data(files), y) \subseteq DOMAIN log

(***************************************************************************)
(* C8: the note taxonomy: None for a missing note, a note empty after      *)
(* trimming or an excluded note; the category of the listed strings; any   *)
(* other string verbatim, trimmed.                                         *)
(***************************************************************************)
TaxonomyOf(raw) ==
    LET n == strip(raw.text) IN
    IF raw.isna \/ n = "" THEN None
    ELSE IF n \in {"Proliance Backup Timeout", "Batch Missing in NextGen"} THEN None
    ELSE IF n \in {"Balanced-Batch Closed", "Balanced-Batch Not Closed", "Balanced"}
         THEN Some("Balanced")
    ELSE IF n \in {"Not Balanced-PLAs", "Not Balanced-Remit Exceptions",
                   "Not Balanced-Expected"}
         THEN Some("Not Balanced-Expected")
    ELSE IF n \in {"Reconciled-Post Option Grayed Out", "Not Balanced-Review",
                   "Not Balanced-TA Review"}
         THEN Some("Not Balanced-Review")
    ELSE IF n = "Amkai" THEN Some("Amkai")
    ELSE Some(n)

C8_NoteTaxonomy ==
    ncalls > 0 => normalized = TaxonomyOf(note)

(***************************************************************************)
(* C9: during a run and at its end, for every year whose YTD aggregate was *)
(* computed in this run (the files are those both passes read), every      *)
(* payer and every category, the YTD count is the sum of the counts of the *)
(* year's months, for the category map and for the Amkai counter; and no   *)
(* category map holds the key Amkai.                                       *)
(***************************************************************************)
C9_YtdConsistent ==
    \A y \in OutputYears :
       (pc # "idle" /\ get_ytd_sheet_name(y) \in DOMAIN log)
       => LET ytd == log[get_ytd_sheet_name(y)]
              months == MonthSheets(monthly_data(files), y)
              payers == Keys(ytd) \cup UNION {Keys(log[m]) : m \in months}
              cats == UNION {UNION {DOMAIN log[s].payer_stats[p] :
                                       p \in DOMAIN log[s].payer_stats} :
                                s \in DOMAIN log}
          IN /\ months \subseteq DOMAIN log
             /\ \A p \in payers :
                   /\ \A c \in cats \cup {"Balanced", "Not Balanced-Expected",
                                          "Not Balanced-Review"} :
                         StatOf(ytd.payer_stats, p, c) =
                            SumOf([m \in months |-> StatOf(log[m].payer_stats, p, c)])
                   /\ AmkaiOf(ytd.amkai_counts, p) =
                         SumOf([m \in months |-> AmkaiOf(log[m].amkai_counts, p)])
                   /\ "Amkai" \notin cats

\* a YTD aggregate over two months that both count the same payer and category,
\* with a nonzero Amkai counter
C9_Witness ==
    \E y \in OutputYears :
       /\ pc # "idle"
       /\ get_ytd_sheet_name(y) \in DOMAIN log
       /\ \E p \in Keys(log[get_ytd_sheet_name(y)]) :
             /\ AmkaiOf(log[get_ytd_sheet_name(y)].amkai_counts, p) > 0
             /\ \E m1, m2 \in MonthSheets(monthly_data(files), y) :
                   /\ m1 # m2
                   /\ StatOf(log[m1].payer_stats, p, "Balanced") > 0
                   /\ StatOf(log[m2].payer_stats, p, "Balanced") > 0

(***************************************************************************)
(* C10 as stated: every payer key of the aggregate passed to populate is a *)
(* key of the payer row table.                                             *)
(***************************************************************************)
C10_PayerDomain ==
    lastCall.result # "none" => Keys(lastCall.agg) \subseteq DOMAIN payer_row_table

(***************************************************************************)
(* C10 amended: every payer key of the aggregate is the payer name of a    *)
(* file that the run reads; the keys that are in payer_row_mapping have their   *)
(* row written, and the other keys are skipped: no cell outside the payer  *)
(* rows is ever written.                                                   *)
(***************************************************************************)
C10_KeysAreFilePayers ==
    /\ (pc # "idle" /\ lastCall.result # "none")
       => Keys(lastCall.agg) \subseteq
             {extract_payer_name(FileNames[i]).s :
                 i \in {j \in Slots : files[j].kind # "absent"}}
    /\ lastCall.result = "saved"
       => \A p \in Keys(lastCall.agg) \cap DOMAIN payer_row_mapping : \A col \in Cols :
             CalledSheet.cells[<<payer_row_mapping[p], col>>].kind # "blank"
    /\ \A y \in OutputYears : \A s \in DOMAIN wb[y].sheets :
       \A rc \in CellIds :
          rc[1] \notin PayerRows => wb[y].sheets[s].cells[rc].kind # "int"

\* a saved call whose aggregate has a payer key outside the payer row table
C10_Witness ==
    /\ lastCall.result = "saved"
    /\ \E p \in Keys(lastCall.agg) : p \notin DOMAIN payer_row_table
    /\ \E p \in Keys(lastCall.agg) : p \in DOMAIN payer_row_mapping

(***************************************************************************)
(* C11: during a run, the aggregate passed to every populate call (month   *)
(* or YTD) holds, for every payer and category, exactly the rows of the    *)
(* files of the period that have a payer name, can be read and have the    *)
(* NOTE column: a file that fails contributes nothing and stops no other   *)
(* file, a row of an unmapped category stops no other row; the saved sheet *)
(* shows these counts; and a run that ends without a populate error has    *)
(* passed every period of every year to populate.                          *)
(***************************************************************************)
\* the files of the period of a sheet: one month's group, or the year's groups
GroupSlots(md, y, sheet_name) ==
    LET yms == {k \in DOMAIN md.groups :
                   /\ md.yearOf[k] = y
                   /\ \/ sheet_name = get_ytd_sheet_name(y)
                      \/ sheet_name = get_month_sheet_name(y, md.monthOf[k])}
    IN UNION {{md.groups[k][j] : j \in DOMAIN md.groups[k]} : k \in yms}

PayerOf(i) == extract_payer_name(FileNames[i]).s

\* the file has a payer name, can be read and has the NOTE column
Contributes(fs, i) == i \in NamedSlots /\ fs[i].kind = "ok"

\* the rows of the contributing files of payer p whose note normalizes to c
DirectCount(fs, slots, p, c) ==
    LET good == {i \in slots : Contributes(fs, i) /\ PayerOf(i) = p}
        rows == UNION {{<<i, r>> : r \in DOMAIN fs[i].rows} : i \in good}
    IN Cardinality({ir \in rows :
                       normalize_payment_note(fs[ir[1]].rows[ir[2]]) = Some(c)})

DirectColumn(fs, slots, p, col) ==
    DirectCount(fs, slots, p, IF col = "K" THEN "Amkai" ELSE CategoryOfColumn(col))

\* the normalized notes of all rows of the files of the period
NotesOf(fs, slots) ==
    UNION {{normalize_payment_note(fs[i].rows[r]).s : r \in DOMAIN fs[i].rows} :
              i \in slots}

C11_FileIsolation ==
    /\ (pc # "idle" /\ lastCall.result # "none")
       => LET md == monthly_data(files)
              slots == GroupSlots(md, lastCall.year, lastCall.sheet)
              agg == lastCall.agg
              payers == Keys(agg) \cup {PayerOf(i) : i \in slots}
              cats == NotesOf(files, slots)
                         \cup UNION {DOMAIN agg.payer_stats[p] :
                                        p \in DOMAIN agg.payer_stats}
          IN /\ \A p \in payers :
                   /\ \A c \in cats \ {"Amkai"} :
                         StatOf(agg.payer_stats, p, c) = DirectCount(files, slots, p, c)
                   /\ AmkaiOf(agg.amkai_counts, p) =
                         DirectCount(files, slots, p, "Amkai")
             /\ lastCall.result = "saved"
                => \A p \in DOMAIN payer_row_mapping : \A col \in Cols :
                      LET cell == CalledSheet.cells[<<payer_row_mapping[p], col>>]
                      IN cell.kind # "formula"
                         => cell = Literal(DirectColumn(files, slots, p, col))
    /\ (pc = "done" /\ outcome = "ok")
       => \A y \in Years(monthly_data(files)) :
             PeriodSheets(monthly_data(files), y) \subseteq DOMAIN log

\* a saved call for a period that holds an unreadable file, a file without the
\* NOTE column and a file without a payer name, and, later in the loop than a
\* file that raised, a file with a row of an unmapped category followed by rows
\* that the sheet shows as a nonzero count
C11_Witness ==
    /\ pc # "idle"
    /\ lastCall.result = "saved"
    /\ LET slots == GroupSlots(monthly_data(files), lastCall.year, lastCall.sheet)
       IN /\ \E i \in slots : files[i] = NoNoteColumn
          /\ \E i \in slots : i \notin NamedSlots
          /\ \E i, g \in slots :
                /\ i < g
                /\ files[i] = Unreadable
                /\ Contributes(files, g)
                /\ PayerOf(g) \in DOMAIN payer_row_mapping
                /\ StatOf(lastCall.agg.payer_stats, PayerOf(g), "Something Else") > 0
                /\ \E col \in Cols :
                      LET cell == CalledSheet.cells[<<payer_row_mapping[PayerOf(g)], col>>]
                      IN cell.kind = "int" /\ cell.value > 0

(***************************************************************************)
(* C12: in every state, a workbook that exists has no sheet whose name     *)
(* still carries the placeholder, and the month and YTD passes of a run    *)
(* never work on a workbook that has such a sheet.                         *)
(***************************************************************************)
\* the sheet names of the template that carry the placeholder
PlaceholderNames ==
    {Join(TemplateSheets[k].name) :
        k \in {j \in DOMAIN TemplateSheets :
                  \E i \in DOMAIN TemplateSheets[j].name :
                     TemplateSheets[j].name[i] = Placeholder}}

C12_AllOrNothing ==
    /\ \A y \in OutputYears :
          wb[y].exists => DOMAIN wb[y].sheets \cap PlaceholderNames = {}
    /\ pc \in {"month", "ytd"}
       => DOMAIN wb[year].sheets \cap PlaceholderNames = {}

====
